---- MODULE Spec2Model ----
(***************************************************************************)
(* Model of the wikiglot lookup engine (src/src/wikiglot.ts and the        *)
(* extractors it calls).  One lookup is a stack of asynchronous calls      *)
(* (translateEng, fetch, searchSuggestions); every network request is a    *)
(* separate step whose response the server chooses.                        *)
(*                                                                         *)
(* Strings are sequences of characters; a character is a one-token string: *)
(*   "a" "b"  plain Latin letters          "A"   upper-case a              *)
(*   "a'"     a with acute (precomposed)   "acute" the combining mark      *)
(*   "sp"     the space U+0020             "us"  the underscore            *)
(***************************************************************************)
EXTENDS Integers, Sequences, FiniteSets, TLC

\* ------------------------------------------------------------------------
\* Bounds of the model
\* ------------------------------------------------------------------------
\* longest list of titles a search response carries (the code asks for 10)
MaxSuggestions == 2

\* ------------------------------------------------------------------------
\* Values standing for JavaScript's undefined / null
\* ------------------------------------------------------------------------
Null == <<"<null>">>
NoForm == [baseVerb |-> Null, formType |-> ""]

\* JavaScript truthiness of an optional string: undefined and "" are falsy
Truthy(s) == s # Null /\ s # <<>>

\* ------------------------------------------------------------------------
\* String helpers
\* ------------------------------------------------------------------------
RECURSIVE Flatten(_)
Flatten(ss) == IF ss = <<>> THEN <<>> ELSE Head(ss) \o Flatten(Tail(ss))

\* word.replace(/\s+/g, '_'): every maximal run of spaces becomes one "_"
RECURSIVE ReplaceWhitespace(_)
ReplaceWhitespace(w) ==
  IF w = <<>> THEN <<>>
  ELSE IF Head(w) = "sp"
       THEN IF Len(w) > 1 /\ w[2] = "sp"
            THEN ReplaceWhitespace(Tail(w))
            ELSE <<"us">> \o ReplaceWhitespace(Tail(w))
       ELSE <<Head(w)>> \o ReplaceWhitespace(Tail(w))

\* String.prototype.normalize('NFD'), character by character
NFD(s) ==
  LET NFDChar(c) == IF c = "a'" THEN <<"a", "acute">> ELSE <<c>>
  IN Flatten([i \in 1..Len(s) |-> NFDChar(s[i])])

\* .replace(/[U+0300-U+036F]/g, '')
StripMarks(s) == SelectSeq(s, LAMBDA c : c # "acute")

ToLowerCase(s) ==
  LET LowerChar(c) == IF c = "A" THEN "a" ELSE c
  IN [i \in 1..Len(s) |-> LowerChar(s[i])]

\* filterBestMatch.normalize
Normalize(s) == ToLowerCase(StripMarks(NFD(s)))
\* variant: no string counts as accented
HasAccentsNever(s) == FALSE
\* filterBestMatch.hasAccents
HasAccents(s) == s # StripMarks(NFD(s))
\* s.includes(' ')
IncludesSpace(s) == \E i \in 1..Len(s) : s[i] = "sp"
\* variant: titles of several words are kept
IsSingleWordAlways(s) == TRUE
IsSingleWord(s) == ~IncludesSpace(s)

\* ------------------------------------------------------------------------
\* Wikiglot.filterBestMatch
\* ------------------------------------------------------------------------

filterBestMatch(suggestions, originalWord) ==
  LET FirstOrNull(s) == IF s # <<>> /\ Truthy(Head(s)) THEN Head(s) ELSE Null
  IN
  IF suggestions = <<>> THEN Null
  ELSE
    LET normalizedOriginal == Normalize(originalWord)
        originalHasAccents == HasAccents(originalWord)
        singleWords == SelectSeq(suggestions, IsSingleWord)
        IsMatch(s) == Normalize(s) = normalizedOriginal
        matches == SelectSeq(singleWords, IsMatch)
        accented == SelectSeq(matches, HasAccents)
        accentedMatch == IF accented = <<>> THEN Null ELSE accented[1]
    IN IF Len(matches) = 0 THEN FirstOrNull(singleWords)
       ELSE IF Len(matches) = 1 THEN matches[1]
       ELSE IF ~originalHasAccents /\ accentedMatch # Null THEN accentedMatch
       ELSE matches[1]

\* ------------------------------------------------------------------------
\* languageConfig.ts
\* ------------------------------------------------------------------------
LANGUAGE_NAMES ==
  [en |-> "English", es |-> "Spanish", fr |-> "French", it |-> "Italian",
   de |-> "German", pt |-> "Portuguese", sv |-> "Swedish", id |-> "Indonesian",
   sw |-> "Swahili", tr |-> "Turkish", ar |-> "Arabic", ko |-> "Korean",
   zh |-> "Chinese"]

supportedLanguages == DOMAIN LANGUAGE_NAMES

\* ------------------------------------------------------------------------
\* Page bodies.  The HTML of a page is represented by what its headings
\* delimit: a sequence of part-of-speech sections, each under a language
\* heading (lang), with
\*   defs     the items of its first ordered definition list; an item has
\*            lead  (it opens with a cross-reference link),
\*            links (the texts of its valid links),
\*            plain (its plain text, split at commas and semicolons),
\*            form  (what the form-of templates capture from it, or NoForm)
\*   trans    the lines of its translation table: language name and spans,
\*            a span having a lang attribute ("" if none), possibly the
\*            class tr, and a text
\*   redirect the subpage its Translations subsection points to, or Null
\* and ipa is the first IPA span of its Pronunciation section ("" if none).
\* Two more shapes are sections of their own: type "see-table" is a ja-see /
\* zh-see table, its defs being the rows (bracket: the word type written in
\* square brackets, "" if none; links: the texts of the row's valid links);
\* type "Definitions" is the Definitions heading of Chinese character pages.
\* ------------------------------------------------------------------------
Item(lead, links, plain, form) ==
  [lead |-> lead, links |-> links, plain |-> plain, form |-> form,
   bracket |-> ""]
SeeRow(bracket, links) ==
  [Item(FALSE, links, <<>>, NoForm) EXCEPT !.bracket = bracket]
Span(lang, tr, text) == [lang |-> lang, tr |-> tr, text |-> text]
Line(language, gloss, spans) ==
  [language |-> language, gloss |-> gloss, spans |-> spans]
Section(lang, type, defs, trans, redirect) ==
  [lang |-> lang, type |-> type, defs |-> defs, trans |-> trans,
   redirect |-> redirect]

HasLang(html, name) == \E i \in 1..Len(html.secs) : html.secs[i].lang = name
SecsOfLang(html, name) ==
  LET InLang(sec) == sec.lang = name IN SelectSeq(html.secs, InLang)
SecsOfType(secs, name) ==
  LET OfType(sec) == sec.type = name IN SelectSeq(secs, OfType)

\* translateEng lines 176-186: the English section, or the whole page when
\* the page has no English heading
EnglishHtml(html) ==
  IF HasLang(html, "English") THEN SecsOfLang(html, "English") ELSE html.secs

\* ------------------------------------------------------------------------
\* enWiktionaryParser.ts
\* ------------------------------------------------------------------------
\* detectVerbForm: the first item of the first ordered list of the region
detectVerbForm(secs) ==
  LET HasOl(sec) == sec.type # "see-table" /\ sec.defs # <<>>
      withOl == SelectSeq(secs, HasOl)
  IN IF withOl = <<>> THEN NoForm ELSE withOl[1].defs[1].form

\* detectEnglishVerbForm: the first Verb section of the English section
detectEnglishVerbForm(html) ==
  IF ~HasLang(html, "English") THEN NoForm
  ELSE LET verbs == SecsOfType(SecsOfLang(html, "English"), "Verb")
       IN IF verbs = <<>> \/ verbs[1].defs = <<>> THEN NoForm
          ELSE verbs[1].defs[1].form

ForeignWordTypes ==
  << [key |-> "noun", name |-> "Noun"], [key |-> "verb", name |-> "Verb"],
     [key |-> "participle", name |-> "Participle"],
     [key |-> "adjective", name |-> "Adjective"],
     [key |-> "adverb", name |-> "Adverb"],
     [key |-> "pronoun", name |-> "Pronoun"],
     [key |-> "preposition", name |-> "Preposition"],
     [key |-> "conjunction", name |-> "Conjunction"],
     [key |-> "interjection", name |-> "Interjection"],
     [key |-> "numeral", name |-> "Numeral"],
     [key |-> "phrase", name |-> "Phrase"] >>

\* the entries one definition item yields (lines 650-706)
ItemEntries(item) ==
  IF ~item.lead THEN <<>>
  ELSE IF item.links # <<>>
       THEN [i \in 1..Len(item.links) |->
               [translation |-> item.links[i], transliteration |-> "",
                meaning |-> item.links]]
       ELSE IF item.plain # <<>>
            THEN << [translation |-> item.plain[1], transliteration |-> "",
                     meaning |-> item.plain] >>
            ELSE <<>>

SectionEntries(sec) ==
  Flatten([i \in 1..Len(sec.defs) |-> ItemEntries(sec.defs[i])])

Group(wordType, translations, verbForm) ==
  [wordType |-> wordType, translations |-> translations, verbForm |-> verbForm]

\* the group of one word type (the body of the loop at lines 609-725)
ForeignGroup(ls, type, verbFormInfo) ==
  LET found == SecsOfType(ls, type.name)
  IN IF found = <<>> THEN <<>>
     ELSE LET typeSection == found[1]
              sectionVerbForm == detectVerbForm(<<typeSection>>)
              translations == SectionEntries(typeSection)
          IN IF translations = <<>> THEN <<>>
             ELSE << Group(type.key, translations,
                       IF sectionVerbForm # NoForm THEN sectionVerbForm
                       ELSE IF verbFormInfo # NoForm
                               /\ type.key \in {"verb", "participle"}
                            THEN verbFormInfo
                            ELSE NoForm) >>

\* one entry per link, all sharing the row's meaning (lines 424-427, 476-479)
LinkEntries(links) ==
  [i \in 1..Len(links) |->
     [translation |-> links[i], transliteration |-> "", meaning |-> links]]

\* lines 400-436: a group per bracketed row of the table that has links
SeeRowGroups(rows) ==
  Flatten([i \in 1..Len(rows) |->
             IF rows[i].bracket # "" /\ rows[i].links # <<>>
             THEN << Group(rows[i].bracket, LinkEntries(rows[i].links),
                           NoForm) >>
             ELSE <<>>])

\* lines 392-493: the groups a ja-see / zh-see table yields
SeeTableGroups(ls, sourceLanguage) ==
  LET tables == SecsOfType(ls, "see-table")
  IN IF tables = <<>> THEN <<>>
     ELSE LET rows == tables[1].defs
              bracketed == SeeRowGroups(rows)
              englishWords == Flatten([i \in 1..Len(rows) |-> rows[i].links])
          IN IF bracketed = <<>> /\ sourceLanguage = "Chinese"
             THEN IF englishWords # <<>>
                  THEN << Group("interjection", LinkEntries(englishWords),
                                NoForm) >>
                  ELSE <<>>
             ELSE bracketed

\* lines 519-573: the entry of one item of the Definitions list
DefinitionEntries(item) ==
  LET englishWords == IF item.links # <<>> THEN item.links
                      ELSE IF item.plain # <<>> THEN <<item.plain[1]>>
                      ELSE <<>>
  IN IF englishWords = <<>> THEN <<>>
     ELSE << [translation |-> englishWords[1], transliteration |-> "",
              meaning |-> englishWords] >>

\* lines 502-592: the group of a Chinese Definitions section
DefinitionsGroups(ls, sourceLanguage) ==
  LET found == SecsOfType(ls, "Definitions")
  IN IF sourceLanguage # "Chinese" \/ found = <<>> THEN <<>>
     ELSE LET translations ==
                Flatten([i \in 1..Len(found[1].defs) |->
                           DefinitionEntries(found[1].defs[i])])
          IN IF translations = <<>> THEN <<>>
             ELSE << Group("noun", translations, NoForm) >>

parseEnglishWiktionaryForeignWord(html, sourceLanguage) ==
  IF ~HasLang(html, sourceLanguage) THEN <<>>
  ELSE LET languageSection == SecsOfLang(html, sourceLanguage)
           verbFormInfo == detectVerbForm(languageSection)
           fromTable == SeeTableGroups(languageSection, sourceLanguage)
           fromDefinitions == DefinitionsGroups(languageSection, sourceLanguage)
       IN IF fromTable # <<>> THEN fromTable
          ELSE IF fromDefinitions # <<>> THEN fromDefinitions
          ELSE Flatten([i \in 1..Len(ForeignWordTypes) |->
                          ForeignGroup(languageSection, ForeignWordTypes[i],
                                       verbFormInfo)])

\* ------------------------------------------------------------------------
\* htmlParser (src/src/utils/headwordParser.ts lines 222-543)
\* ------------------------------------------------------------------------
EnWordTypes ==
  << [key |-> "noun", name |-> "Noun"], [key |-> "verb", name |-> "Verb"],
     [key |-> "adjective", name |-> "Adjective"],
     [key |-> "adverb", name |-> "Adverb"],
     [key |-> "pronoun", name |-> "Pronoun"],
     [key |-> "preposition", name |-> "Preposition"],
     [key |-> "conjunction", name |-> "Conjunction"],
     [key |-> "interjection", name |-> "Interjection"],
     [key |-> "numeral", name |-> "Numeral"],
     [key |-> "phrase", name |-> "Phrase"] >>

\* variant: the matches left in the order the two passes found them
spanMatchesUnsorted(content) ==
  LET withLang == SelectSeq(content, LAMBDA el : el.lang # "")
      withTr == SelectSeq(content, LAMBDA el : el.tr)
  IN [i \in 1..Len(withLang) |->
        [isTranslit |-> withLang[i].lang = "ar-Latn",
         text |-> withLang[i].text]]
     \o [i \in 1..Len(withTr) |->
           [isTranslit |-> TRUE, text |-> withTr[i].text]]

\* lines 358-381: the matches of langSpanRegex (a transliteration when the
\* lang attribute includes "-Latn") and those of trSpanRegex, sorted by
\* position; an element both expressions match is there twice
spanMatches(content) ==
  Flatten([i \in 1..Len(content) |->
     (IF content[i].lang # ""
      THEN << [isTranslit |-> content[i].lang = "ar-Latn",
               text |-> content[i].text] >>
      ELSE <<>>)
     \o (IF content[i].tr
         THEN << [isTranslit |-> TRUE, text |-> content[i].text] >>
         ELSE <<>>)])

\* lines 383-408: a rendering followed by a transliteration-marked match is
\* paired with it; an unpaired transliteration match is dropped
RECURSIVE extractTranslations(_, _)
extractTranslations(spans, gloss) ==
  IF spans = <<>> THEN <<>>
  ELSE LET current == spans[1]
       IN IF Len(spans) > 1 /\ spans[2].isTranslit /\ ~current.isTranslit
          THEN << [translation |-> current.text,
                   transliteration |-> spans[2].text,
                   meaning |-> <<gloss>>] >>
               \o extractTranslations(SubSeq(spans, 3, Len(spans)), gloss)
          ELSE IF ~current.isTranslit
               THEN << [translation |-> current.text, transliteration |-> "",
                        meaning |-> <<gloss>>] >>
                    \o extractTranslations(Tail(spans), gloss)
               ELSE extractTranslations(Tail(spans), gloss)

\* the entries of one translation table for the target language
TableEntries(trans, targetLanguageName) ==
  Flatten([i \in 1..Len(trans) |->
             IF trans[i].language = targetLanguageName
             THEN extractTranslations(spanMatches(trans[i].spans),
                                      trans[i].gloss)
             ELSE <<>>])

HasTranslations(sec) == sec.trans # <<>> \/ sec.redirect # Null

detectTranslationRedirect(secs, wordTypeName) ==
  LET found == SecsOfType(secs, wordTypeName)
  IN IF found = <<>> THEN Null
     ELSE IF ~HasTranslations(found[1]) THEN Null
     ELSE found[1].redirect

\* the translations of one section (the body of the loop at lines 307-433)
EnSectionEntries(sec, targetLanguageName) ==
  IF ~HasTranslations(sec) THEN <<>>
  ELSE IF sec.redirect # Null THEN <<>>
  ELSE TableEntries(sec.trans, targetLanguageName)

EnGroup(secs, type, targetLanguageName) ==
  LET allMatches == SecsOfType(secs, type.name)
      allTranslations ==
        Flatten([i \in 1..Len(allMatches) |->
                   EnSectionEntries(allMatches[i], targetLanguageName)])
  IN IF allTranslations = <<>> THEN <<>>
     ELSE << Group(type.key, allTranslations, NoForm) >>

parseWiktionaryTranslationsByType(secs, targetLanguageCode) ==
  LET targetLanguageName == LANGUAGE_NAMES[targetLanguageCode]
  IN Flatten([i \in 1..Len(EnWordTypes) |->
                EnGroup(secs, EnWordTypes[i], targetLanguageName)])

parseTranslationRedirectPage(html, targetLanguageCode, wordTypeName) ==
  LET found == SecsOfType(html.secs, wordTypeName)
  IN IF found = <<>> THEN <<>>
     ELSE TableEntries(found[1].trans, LANGUAGE_NAMES[targetLanguageCode])

\* pronunciationParser: the first IPA span, undefined ("") when there is none
extractPronunciation(html) == html.ipa

\* ------------------------------------------------------------------------
\* The words, pages and server responses the model draws from
\* ------------------------------------------------------------------------
wA == <<"a">>
wAcc == <<"a'">>
wAB == <<"a", "sp", "b">>

QueryWords == {wA, wAB}
\* language pairs: accepted ones in both directions, and one of each kind
\* that validation rejects (same language, no English side, unsupported code)
QueryPairs ==
  {<<"en", "es">>, <<"es", "en">>, <<"zh", "en">>, <<"en", "en">>,
   <<"es", "fr">>, <<"ja", "en">>, <<"en", "xx">>}

Html(secs, ipa) == [secs |-> secs, ipa |-> ipa]
EmptyHtml == Html(<<>>, "")

LinkItem(text) == Item(TRUE, <<text>>, <<text>>, NoForm)
FormItem(base, formType) ==
  Item(TRUE, <<"form">>, <<"form">>,
       [baseVerb |-> base, formType |-> formType])
EsLine == Line("Spanish", "gloss", <<Span("es", FALSE, "azucar")>>)

\* a page with an English and a Spanish entry
NounPage ==
  Html(<<Section("English", "Noun", <<LinkItem("def")>>, <<EsLine>>, Null),
         Section("Spanish", "Noun", <<LinkItem("sugar")>>, <<>>, Null)>>,
       "ipa")
\* a page whose English and Spanish entries are verb forms of `base`
FormPage(base) ==
  Html(<<Section("English", "Verb", <<FormItem(base, "past participle")>>,
                 <<EsLine>>, Null),
         Section("Spanish", "Verb", <<FormItem(base, "inflection")>>, <<>>,
                 Null)>>, "")
\* an English entry whose translation table lives on a subpage
RedirectPage ==
  LET wSub == <<"a", "/", "t">>
  IN
  Html(<<Section("English", "Noun", <<LinkItem("def")>>, <<>>, wSub)>>, "")

\* a page of see tables: bracketed rows under Spanish (one without links),
\* a zh-see table without brackets under Chinese
SeeTablePage ==
  Html(<<Section("Spanish", "see-table",
                 <<SeeRow("noun", <<>>), SeeRow("interjection", <<"hello">>)>>,
                 <<>>, Null),
         Section("Chinese", "see-table",
                 <<SeeRow("", <<>>), SeeRow("", <<"thanks">>)>>, <<>>, Null)>>,
       "")
\* a Spanish noun whose only definition does not open with a link, and a
\* Chinese character entry: a table without links, then a Definitions list
\* whose first item yields nothing and whose second is plain text
DefinitionsPage ==
  Html(<<Section("Spanish", "Noun",
                 <<Item(FALSE, <<"x">>, <<"x">>, NoForm)>>, <<>>, Null),
         Section("Chinese", "see-table", <<SeeRow("noun", <<>>)>>, <<>>, Null),
         Section("Chinese", "Definitions",
                 <<Item(FALSE, <<>>, <<>>, NoForm),
                   Item(FALSE, <<>>, <<"dog">>, NoForm)>>, <<>>, Null)>>,
       "")

\* a Spanish word that is a form of two verbs: an inflection of one and the
\* participle of another (as "visto", of vestir and of ver)
TwoFormsPage ==
  Html(<<Section("Spanish", "Verb", <<FormItem(wA, "inflection")>>, <<>>,
                 Null),
         Section("Spanish", "Participle",
                 <<FormItem(wAcc, "past participle")>>, <<>>, Null)>>, "")

Bodies ==
  {EmptyHtml, NounPage, FormPage(wA), RedirectPage, SeeTablePage,
   DefinitionsPage, TwoFormsPage}

\* what the server may answer to a page request for `word`
PageResponse(kind, title, html) == [kind |-> kind, title |-> title, html |-> html]
PageResponses(word) ==
  LET ServerTitles == {wA}
  IN
  LET PageFailures == {"http404", "httpError", "missingtitle", "apiError",
                       "timeout", "networkError"}
  IN
  {PageResponse("ok", t, b) : t \in {word} \cup ServerTitles, b \in Bodies}
  \cup {PageResponse("ok", Null, EmptyHtml)}
  \cup {PageResponse(k, Null, EmptyHtml) : k \in PageFailures}

SeqsUpTo(S, n) == UNION {[1..k -> S] : k \in 0..n}
SearchResponse(kind, list) == [kind |-> kind, list |-> list]
SearchResponses ==
  LET SearchTitles == {wA, wAcc, wAB}
  IN
  LET SearchFailures == {"httpError", "noQuery", "timeout", "networkError"}
  IN
  {SearchResponse("ok", l) : l \in SeqsUpTo(SearchTitles, MaxSuggestions)}
  \cup {SearchResponse(k, <<>>) : k \in SearchFailures}

\* ------------------------------------------------------------------------
\* State
\* ------------------------------------------------------------------------
VARIABLES
  limited,     \* the client was constructed with a rateLimit option
  call,        \* the arguments of the translate call
  stack,       \* the pending asynchronous calls, innermost last
  ret,         \* what the call that just completed returned or threw
  net,         \* the request in flight
  log,         \* every request sent so far, with the response it received
  admissions,  \* completed RateLimiter.acquire calls
  outcome      \* what translate returned or threw

vars == <<limited, call, stack, ret, net, log, admissions, outcome>>

\* the RateLimiter object and the callers of its acquire method
VARIABLES
  rateLimiter, \* its fields: queue, maxRequests, perMilliseconds
  clock,       \* Date.now(), in milliseconds
  acquiring,   \* per caller: where its acquire call stands
  grants       \* the time of every admission so far, in order

limiterVars == <<rateLimiter, clock, acquiring, grants>>

\* constructor(maxRequests, perMilliseconds): the queue starts empty
NewRateLimiter(maxRequests, perMilliseconds) ==
  [queue |-> <<>>, maxRequests |-> maxRequests,
   perMilliseconds |-> perMilliseconds]

\* a limiter nobody calls yet
LimiterIdle ==
  /\ rateLimiter = NewRateLimiter(1, 1)
  /\ clock = 0
  /\ acquiring = <<>>
  /\ grants = <<>>

\* one call of the private method filterBestMatch, taken on its own
VARIABLES
  matching     \* its arguments, where it stands and what it returned

\* no such call is under way
MatchIdle ==
  matching = [suggestions |-> <<>>, originalWord |-> <<>>, pc |-> "idle",
              correctedWord |-> Null]

\* one call of a method or parser function that keeps no state, taken on
\* its own
VARIABLES
  calling      \* the function, its arguments, where it stands, its value

\* no such call is under way
CallIdle == calling = [fn |-> "", args |-> <<>>, pc |-> "idle", value |-> <<>>]

\* a corrected lookup set beside the direct lookup of the word it resolved to
VARIABLES
  source,      \* the Wiktionary both lookups read: its pages, its search
  earlier      \* the result of the corrected lookup, once it is kept

pairVars == <<source, earlier>>

NoResult ==
  [word |-> Null, sourceLanguage |-> "", targetLanguage |-> "",
   translationsByType |-> <<>>, pronunciation |-> "",
   searchedFor |-> Null, foundAs |-> Null]
NoRet ==
  LET NoResponse == [title |-> Null, html |-> EmptyHtml]
  IN
  [kind |-> "none", error |-> "", response |-> NoResponse,
   correctedFrom |-> Null, result |-> NoResult, list |-> <<>>]
NoRequest == [kind |-> "none", title |-> Null]

\* no comparison is under way
NoComparison ==
  /\ source = [page |-> <<>>, search |-> <<>>]
  /\ earlier = NoResult

Throw(error) == [NoRet EXCEPT !.kind = "throw", !.error = error]
ReturnResponse(response, correctedFrom) ==
  [NoRet EXCEPT !.kind = "value", !.response = response,
                !.correctedFrom = correctedFrom]
ReturnResult(result) == [NoRet EXCEPT !.kind = "value", !.result = result]
ReturnList(list) == [NoRet EXCEPT !.kind = "value", !.list = list]

Frame(fn, purpose, word) ==
  [fn |-> fn, purpose |-> purpose, pc |-> "entry", word |-> word,
   sourceLanguage |-> "", targetLanguage |-> "",
   skipVerbFormLookup |-> FALSE, attemptCorrection |-> FALSE,
   normalizedWord |-> Null, html |-> EmptyHtml, actualTitle |-> Null,
   correctedFrom |-> Null, translationsByType |-> <<>>,
   englishVerbForm |-> NoForm, wtIdx |-> 1, verbFormEntries |-> <<>>,
   vfIdx |-> 1, fetchedBaseVerbs |-> {}, correctedWord |-> Null]

\* a call translateEng(word, sourceLanguage, targetLanguage, skip)
TranslateEngCall(purpose, word, sourceLanguage, targetLanguage, skip) ==
  [Frame("translateEng", purpose, word) EXCEPT
     !.sourceLanguage = sourceLanguage, !.targetLanguage = targetLanguage,
     !.skipVerbFormLookup = skip]
\* variant: a fetch that corrects again inside its own retry
FetchCallCorrecting(purpose, word, attemptCorrection) ==
  [Frame("fetch", purpose, word) EXCEPT !.attemptCorrection = TRUE]
\* a call fetch(word, attemptCorrection)
FetchCall(purpose, word, attemptCorrection) ==
  [Frame("fetch", purpose, word) EXCEPT !.attemptCorrection = attemptCorrection]
\* a call searchSuggestions(word)
SearchCall(word) == Frame("searchSuggestions", "search", word)

Top == stack[Len(stack)]
Running(fn, pc) == stack # <<>> /\ Top.fn = fn /\ Top.pc = pc
SetTop(f) == [stack EXCEPT ![Len(stack)] = f]
Pop == SubSeq(stack, 1, Len(stack) - 1)
Await(f, callee) == Append(SetTop(f), callee)

\* how a response is recorded: found, missing, timed out or failed otherwise
ResponseClass(kind) ==
  CASE kind = "ok" -> "ok"
    [] kind \in {"http404", "missingtitle"} -> "missing"
    [] kind = "timeout" -> "timeout"
    [] OTHER -> "error"

\* a request: its kind, the title asked for, the calls it was made from, and
\* once answered the class of the response and the title the server reported
LogEntry(kind, title) ==
  LET Context == [i \in 1..Len(stack) |-> stack[i].purpose]
  IN
  [kind |-> kind, title |-> title, context |-> Context,
   response |-> "pending", reported |-> Null]
Answered(kind, reported) ==
  [log EXCEPT ![Len(log)].response = ResponseClass(kind),
              ![Len(log)].reported = reported]

\* variant: requests sent without asking the limiter
AcquireSkipped == admissions

\* rateLimiter.acquire(), when a limiter is configured (lines 347-349, 432-434)
Acquire == IF limited THEN admissions + 1 ELSE admissions

\* a client on which translate was not called yet
NoLookup ==
  /\ call = [word |-> Null, sourceLanguage |-> "", targetLanguage |-> ""]
  /\ stack = <<>>
  /\ ret = NoRet
  /\ net = NoRequest
  /\ log = <<>>
  /\ admissions = 0
  /\ outcome = [status |-> "idle", error |-> "", result |-> NoResult]

Init ==
  /\ limited \in BOOLEAN
  /\ NoLookup
  /\ LimiterIdle
  /\ MatchIdle
  /\ CallIdle
  /\ NoComparison

\* ------------------------------------------------------------------------
\* translate
\* ------------------------------------------------------------------------
Translate(word, sourceLanguage, targetLanguage) ==
  /\ outcome.status = "idle"
  /\ call' = [word |-> word, sourceLanguage |-> sourceLanguage,
              targetLanguage |-> targetLanguage]
  /\ stack' = <<TranslateEngCall("outer", word, sourceLanguage,
                                 targetLanguage, FALSE)>>
  /\ outcome' = [outcome EXCEPT !.status = "running"]
  /\ UNCHANGED <<limiterVars, matching, calling, pairVars>>
  /\ UNCHANGED <<limited, ret, net, log, admissions>>

\* translate's promise settles with what the outer translateEng produced
Settle ==
  /\ outcome.status = "running"
  /\ stack = <<>>
  /\ ret.kind # "none"
  /\ outcome' = IF ret.kind = "throw"
                THEN [outcome EXCEPT !.status = "threw", !.error = ret.error]
                ELSE [outcome EXCEPT !.status = "returned",
                                     !.result = ret.result]
  /\ ret' = NoRet
  /\ UNCHANGED <<limiterVars, matching, calling, pairVars>>
  /\ UNCHANGED <<limited, call, stack, net, log, admissions>>

\* ------------------------------------------------------------------------
\* fetch (lines 431-503)
\* ------------------------------------------------------------------------
\* variant: a catch block that rethrows every error as it came
CatchErrorVerbatim(name) == name

\* the catch block: an abort becomes a timeout error, anything else is rethrown
CatchError(name) ==
  IF name = "AbortError" THEN "WikiglotTimeoutError" ELSE name

\* the error thrown when a missing page is not corrected
MissingPageError(kind) ==
  IF kind = "http404" THEN "WikiglotNotFoundError" ELSE "WikiglotError"

FetchSend ==
  /\ Running("fetch", "entry")
  /\ admissions' = Acquire
  /\ net' = [kind |-> "page", title |-> Top.word]
  /\ log' = Append(log, LogEntry("page", Top.word))
  /\ stack' = SetTop([Top EXCEPT !.pc = "await"])
  /\ UNCHANGED <<limiterVars, matching, calling, pairVars>>
  /\ UNCHANGED <<limited, call, ret, outcome>>

\* the request of fetch is answered with r
FetchResponds(r) ==
  /\ Running("fetch", "await")
  /\ net.kind = "page"
  /\ log' = Answered(r.kind, r.title)
  /\ net' = NoRequest
  /\ IF r.kind = "ok"
     THEN /\ stack' = Pop
          /\ ret' = ReturnResponse([title |-> r.title, html |-> r.html], Null)
     ELSE IF r.kind \in {"http404", "missingtitle"} /\ Top.attemptCorrection
     THEN /\ stack' = Await([Top EXCEPT !.pc = r.kind], SearchCall(Top.word))
          /\ ret' = NoRet
     ELSE /\ stack' = Pop
          /\ ret' = Throw(CatchError(
               CASE r.kind = "timeout" -> "AbortError"
                 [] r.kind = "networkError" -> "FetchError"
                 [] r.kind = "http404" -> MissingPageError(r.kind)
                 [] OTHER -> "WikiglotError"))
  /\ UNCHANGED <<limiterVars, matching, calling, pairVars>>
  /\ UNCHANGED <<limited, call, admissions, outcome>>

FetchRespond ==
  /\ Running("fetch", "await")
  /\ \E r \in PageResponses(Top.word) : FetchResponds(r)

\* after searchSuggestions returned (lines 454-467 and 479-492)
FetchAfterSearch ==
  /\ stack # <<>> /\ Top.fn = "fetch"
  /\ Top.pc \in {"http404", "missingtitle"}
  /\ ret.kind = "value"
  /\ LET correctedWord == filterBestMatch(ret.list, Top.word)
     IN IF Truthy(correctedWord) /\ correctedWord # Top.word
        THEN /\ stack' = Await([Top EXCEPT !.pc = "retry"],
                               FetchCall("corrected", correctedWord, FALSE))
             /\ ret' = NoRet
        ELSE /\ stack' = Pop
             /\ ret' = Throw(CatchError(MissingPageError(Top.pc)))
  /\ UNCHANGED <<limiterVars, matching, calling, pairVars>>
  /\ UNCHANGED <<limited, call, net, log, admissions, outcome>>

\* after the retry fetch(correctedWord, false) settled
FetchAfterRetry ==
  /\ Running("fetch", "retry")
  /\ ret.kind # "none"
  /\ stack' = Pop
  /\ ret' = IF ret.kind = "throw" THEN Throw(CatchError(ret.error))
            ELSE ReturnResponse(ret.response, Top.word)
  /\ UNCHANGED <<limiterVars, matching, calling, pairVars>>
  /\ UNCHANGED <<limited, call, net, log, admissions, outcome>>

\* ------------------------------------------------------------------------
\* searchSuggestions (lines 346-381)
\* ------------------------------------------------------------------------
SearchSend ==
  /\ Running("searchSuggestions", "entry")
  /\ admissions' = Acquire
  /\ net' = [kind |-> "search", title |-> Top.word]
  /\ log' = Append(log, LogEntry("search", Top.word))
  /\ stack' = SetTop([Top EXCEPT !.pc = "await"])
  /\ UNCHANGED <<limiterVars, matching, calling, pairVars>>
  /\ UNCHANGED <<limited, call, ret, outcome>>

\* every failure of the search is answered with the empty list
SearchResult(r) == IF r.kind = "ok" THEN r.list ELSE <<>>

\* the request of searchSuggestions is answered with r
SearchResponds(r) ==
  /\ Running("searchSuggestions", "await")
  /\ net.kind = "search"
  /\ log' = Answered(r.kind, Null)
  /\ ret' = ReturnList(SearchResult(r))
  /\ net' = NoRequest
  /\ stack' = Pop
  /\ UNCHANGED <<limiterVars, matching, calling, pairVars>>
  /\ UNCHANGED <<limited, call, admissions, outcome>>

SearchRespond == \E r \in SearchResponses : SearchResponds(r)

\* ------------------------------------------------------------------------
\* translateEng (lines 144-340)
\* ------------------------------------------------------------------------
\* variant: validation without the English-side test of lines 161-163
ValidationErrorNoPivot(sourceLanguage, targetLanguage) ==
  IF sourceLanguage \notin supportedLanguages
     \/ targetLanguage \notin supportedLanguages
  THEN "unsupported"
  ELSE IF sourceLanguage = targetLanguage THEN "same"
  ELSE ""

\* lines 150-164: "" when the pair is accepted, else what is wrong with it
ValidationError(sourceLanguage, targetLanguage) ==
  IF sourceLanguage \notin supportedLanguages
     \/ targetLanguage \notin supportedLanguages
  THEN "unsupported"
  ELSE IF sourceLanguage = targetLanguage THEN "same"
  ELSE IF sourceLanguage # "en" /\ targetLanguage # "en" THEN "no English"
  ELSE ""

\* the word types whose translation tables may be redirected (line 198)
wordTypes ==
  <<"Noun", "Verb", "Adjective", "Adverb", "Pronoun", "Preposition",
    "Conjunction", "Interjection", "Numeral">>

\* variant: base forms looked up whatever the flag says
LooksUpBaseFormAlways(skipVerbFormLookup) == TRUE

\* line 223 and line 248: is a base-form lookup allowed in this call
LooksUpBaseForm(skipVerbFormLookup) == ~skipVerbFormLookup

\* variant: a lookup without the search-assisted retry
NeedsCorrectionNever(translationsByType, correctedFrom, skipVerbFormLookup) ==
  FALSE

\* variant: the fallback also taken when the page yielded groups
NeedsCorrectionAlways(translationsByType, correctedFrom, skipVerbFormLookup) ==
  /\ ~Truthy(correctedFrom)
  /\ ~skipVerbFormLookup

\* line 296: does the call fall back to the search-assisted retry
NeedsCorrection(translationsByType, correctedFrom, skipVerbFormLookup) ==
  /\ Len(translationsByType) = 0
  /\ ~Truthy(correctedFrom)
  /\ ~skipVerbFormLookup

\* variant: the groups of the base form taken over as they are
TagGroupsKeeping(groups, verbForm) == groups

\* lines 232-237 and 265-270: the groups of the base form, each tagged
TagGroups(groups, verbForm) ==
  [i \in 1..Len(groups) |-> [groups[i] EXCEPT !.verbForm = verbForm]]

\* lines 324-339
MakeResult(f) ==
  [word |-> f.word, sourceLanguage |-> f.sourceLanguage,
   targetLanguage |-> f.targetLanguage,
   translationsByType |-> f.translationsByType,
   pronunciation |-> extractPronunciation(
       IF f.sourceLanguage = "en"
       THEN Html(EnglishHtml(f.html), f.html.ipa) ELSE f.html),
   searchedFor |-> IF Truthy(f.correctedFrom) THEN f.correctedFrom ELSE Null,
   foundAs |-> IF Truthy(f.correctedFrom) THEN f.actualTitle ELSE Null]

\* lines 312-316: the retry's result with the correction metadata
CorrectedResult(retryResult, f) ==
  [retryResult EXCEPT !.searchedFor = f.normalizedWord,
                      !.foundAs = f.correctedWord]

\* lines 150-167
TranslateEngValidate ==
  /\ Running("translateEng", "entry")
  /\ IF ValidationError(Top.sourceLanguage, Top.targetLanguage) # ""
     THEN /\ stack' = Pop
          /\ ret' = Throw("WikiglotError")
     ELSE LET normalizedWord == ReplaceWhitespace(Top.word)
          IN /\ stack' = Await([Top EXCEPT !.pc = "fetched",
                                           !.normalizedWord = normalizedWord],
                               FetchCall("primary", normalizedWord, TRUE))
             /\ ret' = NoRet
  /\ UNCHANGED <<limiterVars, matching, calling, pairVars>>
  /\ UNCHANGED <<limited, call, net, log, admissions, outcome>>

HasVerbForm(group) == group.verbForm # NoForm

\* lines 168-195 and 243-249: the page arrived (or the fetch failed)
TranslateEngExtract ==
  /\ Running("translateEng", "fetched")
  /\ ret.kind # "none"
  /\ IF ret.kind = "throw"
     THEN /\ stack' = Pop
          /\ ret' = ret
     ELSE LET html == ret.response.html
              f == [Top EXCEPT
                      !.html = html,
                      !.actualTitle = IF Truthy(ret.response.title)
                                      THEN ret.response.title
                                      ELSE Top.normalizedWord,
                      !.correctedFrom = ret.correctedFrom]
          IN /\ ret' = NoRet
             /\ IF Top.sourceLanguage = "en"
                THEN stack' = SetTop([f EXCEPT
                       !.englishVerbForm =
                          IF ~Top.skipVerbFormLookup
                          THEN detectEnglishVerbForm(html) ELSE NoForm,
                       !.translationsByType =
                          parseWiktionaryTranslationsByType(
                            EnglishHtml(html), Top.targetLanguage),
                       !.wtIdx = 1,
                       !.pc = "redirects"])
                ELSE LET groups == parseEnglishWiktionaryForeignWord(
                                     html, LANGUAGE_NAMES[Top.sourceLanguage])
                     IN stack' = SetTop([f EXCEPT
                          !.translationsByType = groups,
                          !.verbFormEntries =
                             IF LooksUpBaseForm(Top.skipVerbFormLookup)
                             THEN SelectSeq(groups, HasVerbForm) ELSE <<>>,
                          !.vfIdx = 1,
                          !.pc = "verbForms"])
  /\ UNCHANGED <<limiterVars, matching, calling, pairVars>>
  /\ UNCHANGED <<limited, call, net, log, admissions, outcome>>

\* lines 199-220: the next word type whose table is a redirect, if any
RedirectAt(f, i) == detectTranslationRedirect(EnglishHtml(f.html), wordTypes[i])
NextRedirect(f) ==
  LET rest == {i \in f.wtIdx..Len(wordTypes) : Truthy(RedirectAt(f, i))}
  IN IF rest = {} THEN 0 ELSE CHOOSE i \in rest : \A j \in rest : i <= j

TranslateEngRedirects ==
  /\ Running("translateEng", "redirects")
  /\ LET i == NextRedirect(Top)
     IN IF i = 0
        THEN stack' = SetTop([Top EXCEPT !.pc = "baseVerb"])
        ELSE stack' = Await([Top EXCEPT !.pc = "redirected", !.wtIdx = i],
                            FetchCall("redirect", RedirectAt(Top, i), TRUE))
  /\ UNCHANGED <<limiterVars, matching, calling, pairVars>>
  /\ UNCHANGED <<limited, call, ret, net, log, admissions, outcome>>

\* variant: the group of a subpage is added even when it has no entries
AfterRedirectUnguarded(f, r) ==
  LET redirectTranslations ==
        parseTranslationRedirectPage(r.response.html, f.targetLanguage,
                                     wordTypes[f.wtIdx])
      next == [f EXCEPT !.pc = "redirects", !.wtIdx = f.wtIdx + 1]
  IN IF r.kind = "throw" THEN next
     ELSE [next EXCEPT !.translationsByType =
             Append(f.translationsByType,
                    [wordType |-> wordTypes[f.wtIdx],
                     translations |-> redirectTranslations,
                     verbForm |-> NoForm])]

\* lines 203-218: the subpage arrived, or its fetch failed and is ignored
AfterRedirect(f, r) ==
  LET redirectTranslations ==
        parseTranslationRedirectPage(r.response.html, f.targetLanguage,
                                     wordTypes[f.wtIdx])
      next == [f EXCEPT !.pc = "redirects", !.wtIdx = f.wtIdx + 1]
  IN IF r.kind = "throw" \/ Len(redirectTranslations) = 0 THEN next
     ELSE [next EXCEPT !.translationsByType =
             Append(f.translationsByType,
                    Group(ToLowerCase(<<wordTypes[f.wtIdx]>>)[1],
                          redirectTranslations, NoForm))]

TranslateEngAfterRedirect ==
  /\ Running("translateEng", "redirected")
  /\ ret.kind # "none"
  /\ stack' = SetTop(AfterRedirect(Top, ret))
  /\ ret' = NoRet
  /\ UNCHANGED <<limiterVars, matching, calling, pairVars>>
  /\ UNCHANGED <<limited, call, net, log, admissions, outcome>>

\* lines 222-231: the base form of an English verb form
TranslateEngBaseVerb ==
  /\ Running("translateEng", "baseVerb")
  /\ IF Top.englishVerbForm # NoForm /\ LooksUpBaseForm(Top.skipVerbFormLookup)
     THEN stack' = Await([Top EXCEPT !.pc = "baseVerbDone"],
                         TranslateEngCall("base", Top.englishVerbForm.baseVerb,
                                          Top.sourceLanguage,
                                          Top.targetLanguage, TRUE))
     ELSE stack' = SetTop([Top EXCEPT !.pc = "finalize"])
  /\ UNCHANGED <<limiterVars, matching, calling, pairVars>>
  /\ UNCHANGED <<limited, call, ret, net, log, admissions, outcome>>

\* variant: a failed base-form lookup discards the groups collected so far
AfterBaseFormDropping(f, r, verbForm) ==
  IF r.kind = "throw" THEN [f EXCEPT !.translationsByType = <<>>]
  ELSE [f EXCEPT !.translationsByType =
          f.translationsByType
            \o [i \in 1..Len(r.result.translationsByType) |->
                  [r.result.translationsByType[i] EXCEPT !.verbForm = verbForm]]]

\* lines 232-240 and 265-273: append the base form's groups, or ignore its failure
AfterBaseForm(f, r, verbForm) ==
  IF r.kind = "throw" THEN f
  ELSE [f EXCEPT !.translationsByType =
          f.translationsByType
            \o TagGroups(r.result.translationsByType, verbForm)]

TranslateEngAfterBaseVerb ==
  /\ Running("translateEng", "baseVerbDone")
  /\ ret.kind # "none"
  /\ stack' = SetTop([AfterBaseForm(Top, ret, Top.englishVerbForm)
                        EXCEPT !.pc = "finalize"])
  /\ ret' = NoRet
  /\ UNCHANGED <<limiterVars, matching, calling, pairVars>>
  /\ UNCHANGED <<limited, call, net, log, admissions, outcome>>

\* lines 252-263: the next entry whose base verb was not fetched yet
NextVerbForm(f) ==
  LET rest == {i \in f.vfIdx..Len(f.verbFormEntries) :
                 f.verbFormEntries[i].verbForm.baseVerb \notin f.fetchedBaseVerbs}
  IN IF rest = {} THEN 0 ELSE CHOOSE i \in rest : \A j \in rest : i <= j

TranslateEngVerbForms ==
  /\ Running("translateEng", "verbForms")
  /\ LET i == NextVerbForm(Top)
     IN IF i = 0
        THEN stack' = SetTop([Top EXCEPT !.pc = "finalize"])
        ELSE LET baseVerb == Top.verbFormEntries[i].verbForm.baseVerb
             IN stack' = Await(
                  [Top EXCEPT !.pc = "verbFormDone", !.vfIdx = i,
                              !.fetchedBaseVerbs = @ \cup {baseVerb}],
                  TranslateEngCall("base", baseVerb, Top.sourceLanguage,
                                   Top.targetLanguage, TRUE))
  /\ UNCHANGED <<limiterVars, matching, calling, pairVars>>
  /\ UNCHANGED <<limited, call, ret, net, log, admissions, outcome>>

TranslateEngAfterVerbForm ==
  /\ Running("translateEng", "verbFormDone")
  /\ ret.kind # "none"
  /\ stack' = SetTop([AfterBaseForm(Top, ret,
                                    Top.verbFormEntries[Top.vfIdx].verbForm)
                        EXCEPT !.pc = "verbForms", !.vfIdx = Top.vfIdx + 1])
  /\ ret' = NoRet
  /\ UNCHANGED <<limiterVars, matching, calling, pairVars>>
  /\ UNCHANGED <<limited, call, net, log, admissions, outcome>>

\* lines 278-297 and 324-339
TranslateEngFinalize ==
  /\ Running("translateEng", "finalize")
  /\ IF NeedsCorrection(Top.translationsByType, Top.correctedFrom,
                        Top.skipVerbFormLookup)
     THEN /\ stack' = Await([Top EXCEPT !.pc = "searched"],
                            SearchCall(Top.normalizedWord))
          /\ ret' = NoRet
     ELSE /\ stack' = Pop
          /\ ret' = ReturnResult(MakeResult(Top))
  /\ UNCHANGED <<limiterVars, matching, calling, pairVars>>
  /\ UNCHANGED <<limited, call, net, log, admissions, outcome>>

\* lines 298-308
TranslateEngAfterSearch ==
  /\ Running("translateEng", "searched")
  /\ ret.kind = "value"
  /\ LET correctedWord == filterBestMatch(ret.list, Top.normalizedWord)
     IN IF Truthy(correctedWord) /\ correctedWord # Top.normalizedWord
        THEN /\ stack' = Await(
                  [Top EXCEPT !.pc = "retried", !.correctedWord = correctedWord],
                  TranslateEngCall("retry", correctedWord, Top.sourceLanguage,
                                   Top.targetLanguage, TRUE))
             /\ ret' = NoRet
        ELSE /\ stack' = Pop
             /\ ret' = ReturnResult(MakeResult(Top))
  /\ UNCHANGED <<limiterVars, matching, calling, pairVars>>
  /\ UNCHANGED <<limited, call, net, log, admissions, outcome>>

\* lines 310-339
TranslateEngAfterRetry ==
  /\ Running("translateEng", "retried")
  /\ ret.kind # "none"
  /\ stack' = Pop
  /\ ret' = IF ret.kind = "value" /\ Len(ret.result.translationsByType) > 0
            THEN ReturnResult(CorrectedResult(ret.result, Top))
            ELSE ReturnResult(MakeResult(Top))
  /\ UNCHANGED <<limiterVars, matching, calling, pairVars>>
  /\ UNCHANGED <<limited, call, net, log, admissions, outcome>>

\* ------------------------------------------------------------------------
\* Specification
\* ------------------------------------------------------------------------
Next ==
  \/ \E word \in QueryWords, pair \in QueryPairs :
       Translate(word, pair[1], pair[2])
  \/ Settle
  \/ FetchSend
  \/ FetchRespond
  \/ FetchAfterSearch
  \/ FetchAfterRetry
  \/ SearchSend
  \/ SearchRespond
  \/ TranslateEngValidate
  \/ TranslateEngExtract
  \/ TranslateEngRedirects
  \/ TranslateEngAfterRedirect
  \/ TranslateEngBaseVerb
  \/ TranslateEngAfterBaseVerb
  \/ TranslateEngVerbForms
  \/ TranslateEngAfterVerbForm
  \/ TranslateEngFinalize
  \/ TranslateEngAfterSearch
  \/ TranslateEngAfterRetry

Spec == Init /\ [][Next]_vars

\* One lookup of a rate-limited client, in either direction, against every
\* server.  Every await resumes: each request is answered (by a response, a
\* failure or the abort of its timer), the limiter admits, and the event loop
\* runs the continuation that is ready.  At most one step of a lookup is
\* enabled at a time, so weak fairness of the step relation says exactly this.
FairInit ==
  /\ limited = TRUE
  /\ NoLookup
  /\ LimiterIdle
  /\ MatchIdle
  /\ CallIdle
  /\ NoComparison

FairNext ==
  \/ \E pair \in {<<"en", "es">>, <<"es", "en">>} :
       Translate(wA, pair[1], pair[2])
  \/ Settle
  \/ FetchSend
  \/ FetchRespond
  \/ FetchAfterSearch
  \/ FetchAfterRetry
  \/ SearchSend
  \/ SearchRespond
  \/ TranslateEngValidate
  \/ TranslateEngExtract
  \/ TranslateEngRedirects
  \/ TranslateEngAfterRedirect
  \/ TranslateEngBaseVerb
  \/ TranslateEngAfterBaseVerb
  \/ TranslateEngVerbForms
  \/ TranslateEngAfterVerbForm
  \/ TranslateEngFinalize
  \/ TranslateEngAfterSearch
  \/ TranslateEngAfterRetry

FairSpec == FairInit /\ [][FairNext]_vars /\ WF_vars(FairNext)

\* ------------------------------------------------------------------------
\* Two lookups against one Wiktionary: translate(w, s, t), and when its
\* result carries a correction, translate(result.foundAs, s, t)
\* ------------------------------------------------------------------------
\* the Wiktionary answers alike every time: each title has a page or none,
\* each search its list of titles
PairInit ==
  /\ limited = FALSE
  /\ NoLookup
  /\ LimiterIdle
  /\ MatchIdle
  /\ CallIdle
  /\ source \in
       [page : [{wA, wAcc} ->
                  {[exists |-> FALSE, html |-> EmptyHtml]}
                  \cup {[exists |-> TRUE, html |-> b] : b \in Bodies}],
        search : [{wA, wAcc} -> SeqsUpTo({wA, wAcc}, 1)]]
  /\ earlier = NoResult

\* the corrected result is kept and the word it was found as is looked up
TranslateResolved ==
  /\ outcome.status = "returned"
  /\ outcome.result.searchedFor # Null
  /\ earlier = NoResult
  /\ earlier' = outcome.result
  /\ call' = [call EXCEPT !.word = outcome.result.foundAs]
  /\ stack' = <<TranslateEngCall("outer", outcome.result.foundAs,
                                 call.sourceLanguage, call.targetLanguage,
                                 FALSE)>>
  /\ outcome' = [status |-> "running", error |-> "", result |-> NoResult]
  /\ log' = <<>>
  /\ UNCHANGED <<limiterVars, matching, calling, source>>
  /\ UNCHANGED <<limited, ret, net, admissions>>

PairNext ==
  \/ \E pair \in {<<"en", "es">>, <<"es", "en">>} :
       Translate(wA, pair[1], pair[2])
  \/ TranslateResolved
  \/ Settle
  \/ FetchSend
  \* data.error.code is 'missingtitle' when there is no such page (line 478)
  \/ /\ Running("fetch", "await")
     /\ FetchResponds(
          IF Top.word \in DOMAIN source.page /\ source.page[Top.word].exists
          THEN PageResponse("ok", Top.word, source.page[Top.word].html)
          ELSE PageResponse("missingtitle", Null, EmptyHtml))
  \/ FetchAfterSearch
  \/ FetchAfterRetry
  \/ SearchSend
  \/ /\ Running("searchSuggestions", "await")
     /\ SearchResponds(
          SearchResponse("ok", IF Top.word \in DOMAIN source.search
                               THEN source.search[Top.word] ELSE <<>>))
  \/ TranslateEngValidate
  \/ TranslateEngExtract
  \/ TranslateEngRedirects
  \/ TranslateEngAfterRedirect
  \/ TranslateEngBaseVerb
  \/ TranslateEngAfterBaseVerb
  \/ TranslateEngVerbForms
  \/ TranslateEngAfterVerbForm
  \/ TranslateEngFinalize
  \/ TranslateEngAfterSearch
  \/ TranslateEngAfterRetry

PairSpec == PairInit /\ [][PairNext]_<<vars, pairVars>>

\* ------------------------------------------------------------------------
\* RateLimiter (src/unnamed/part_008): several callers share one limiter.
\* The synchronous part of acquire (lines 12-23) runs without interruption;
\* a caller that has to wait is resumed by its timer, not before the delay
\* it asked for and possibly later, and then calls acquire again.
\* ------------------------------------------------------------------------
NumCallers == 2
MaxClock == 4
MaxRequestsBound == 2
MaxWindow == 2

Callers == 1..NumCallers
NotAcquiring == [pc |-> "idle", wake |-> 0, retries |-> 0]

\* variant: the queue counts as full only once it holds more than maxRequests
IsFullOffByOne(queue, maxRequests) == Len(queue) > maxRequests

\* line 15: this.queue.length >= this.maxRequests
IsFull(queue, maxRequests) == Len(queue) >= maxRequests

\* lines 16-17: the delay until the oldest admission leaves the window
WaitTime(queue, now, perMilliseconds) == perMilliseconds - (now - queue[1])

\* lines 16-18: the delays setTimeout may apply.  With an empty queue
\* oldestRequest is undefined and waitTime is NaN, which setTimeout takes as
\* 1 ms (Node) or as 0 ms (browsers)
TimerDelays(queue, now, perMilliseconds) ==
  IF queue = <<>> THEN {0, 1} ELSE {WaitTime(queue, now, perMilliseconds)}

\* lines 12-23, run by caller p at the current instant; retries counts how
\* often this call was resumed by its timer
AcquireBody(p, retries) ==
  LET \* line 13: this.queue.filter(time => now - time < this.perMilliseconds)
      Retained(queue, now, perMilliseconds) ==
        LET Recent(time) == now - time < perMilliseconds IN SelectSeq(queue, Recent)
  IN
  LET now == clock
      queue == Retained(rateLimiter.queue, now, rateLimiter.perMilliseconds)
  IN IF IsFull(queue, rateLimiter.maxRequests)
     THEN /\ rateLimiter' = [rateLimiter EXCEPT !.queue = queue]
          /\ \E delay \in TimerDelays(queue, now, rateLimiter.perMilliseconds) :
               acquiring' = [acquiring EXCEPT ![p] =
                 [pc |-> "waiting", wake |-> now + delay, retries |-> retries]]
          /\ grants' = grants
     ELSE /\ rateLimiter' = [rateLimiter EXCEPT !.queue = Append(queue, now)]
          /\ acquiring' = [acquiring EXCEPT ![p] = NotAcquiring]
          /\ grants' = Append(grants, now)

\* a caller calls acquire()
acquire(p) ==
  /\ acquiring[p].pc = "idle"
  /\ AcquireBody(p, 0)
  /\ UNCHANGED clock
  /\ UNCHANGED <<vars, matching, calling, pairVars>>

\* lines 18-19: the timer of a waiting caller fired; it calls acquire again
acquireAgain(p) ==
  /\ acquiring[p].pc = "waiting"
  /\ clock >= acquiring[p].wake
  /\ AcquireBody(p, acquiring[p].retries + 1)
  /\ UNCHANGED clock
  /\ UNCHANGED <<vars, matching, calling, pairVars>>

\* a millisecond passes
Tick ==
  /\ clock < MaxClock
  /\ clock' = clock + 1
  /\ UNCHANGED <<rateLimiter, acquiring, grants>>
  /\ UNCHANGED <<vars, matching, calling, pairVars>>

LimiterInit ==
  /\ limited = TRUE
  /\ NoLookup
  /\ \E maxRequests \in 1..MaxRequestsBound, perMilliseconds \in 1..MaxWindow :
       rateLimiter = NewRateLimiter(maxRequests, perMilliseconds)
  /\ clock = 0
  /\ acquiring = [p \in Callers |-> NotAcquiring]
  /\ grants = <<>>
  /\ MatchIdle
  /\ CallIdle
  /\ NoComparison

LimiterNext ==
  \/ \E p \in Callers : acquire(p)
  \/ \E p \in Callers : acquireAgain(p)
  \/ Tick

LimiterSpec == LimiterInit /\ [][LimiterNext]_<<vars, limiterVars, matching, calling, pairVars>>

\* ------------------------------------------------------------------------
\* The limiter with time advancing for ever and finitely many calls, built
\* with every pair of numbers the constructor takes (lines 6-9 test nothing,
\* and wikiglot.ts 51-56 passes the options on as they are)
\* ------------------------------------------------------------------------
LimiterEverInit ==
  /\ limited = TRUE
  /\ NoLookup
  /\ \E maxRequests \in 0..MaxRequestsBound, perMilliseconds \in 0..MaxWindow :
       rateLimiter = NewRateLimiter(maxRequests, perMilliseconds)
  /\ clock = 0
  /\ acquiring = [p \in Callers |-> NotAcquiring]
  /\ grants = <<>>
  /\ MatchIdle
  /\ CallIdle
  /\ NoComparison

\* a caller calls acquire(); no more calls once NumCallers were admitted
Enter(p) ==
  /\ Len(grants) < NumCallers
  /\ acquire(p)

\* lines 18-19: the timer of a waiting caller fired; it calls acquire again
\* (the resumptions are not counted here)
Resume(p) ==
  /\ acquiring[p].pc = "waiting"
  /\ clock >= acquiring[p].wake
  /\ AcquireBody(p, acquiring[p].retries)
  /\ UNCHANGED clock
  /\ UNCHANGED <<vars, matching, calling, pairVars>>

\* a millisecond passes.  acquire reads times only through the differences
\* now - time (lines 13 and 17), so the origin of time is moved along with
\* now; a time older than every window stays at the edge of the widest one,
\* and a timer that has fired stays fired.
Elapse ==
  LET Aged(time) == IF time - 1 < clock - MaxWindow THEN clock - MaxWindow
                    ELSE time - 1
  IN /\ rateLimiter' = [rateLimiter EXCEPT
          !.queue = [i \in 1..Len(rateLimiter.queue) |->
                       Aged(rateLimiter.queue[i])]]
     /\ grants' = [i \in 1..Len(grants) |-> Aged(grants[i])]
     /\ acquiring' = [p \in Callers |->
          [acquiring[p] EXCEPT !.wake = IF @ - 1 < clock THEN clock ELSE @ - 1]]
     /\ UNCHANGED clock
     /\ UNCHANGED <<vars, matching, calling, pairVars>>

LimiterEverNext ==
  \/ \E p \in Callers : Enter(p)
  \/ \E p \in Callers : Resume(p)
  \/ Elapse

\* time advances and every timer that has fired runs its callback
LimiterEverSpec ==
  /\ LimiterEverInit
  /\ [][LimiterEverNext]_<<vars, limiterVars, matching, calling, pairVars>>
  /\ WF_<<vars, limiterVars, matching, calling, pairVars>>(Elapse)
  /\ \A p \in Callers :
       WF_<<vars, limiterVars, matching, calling, pairVars>>(Resume(p))

\* ------------------------------------------------------------------------
\* filterBestMatch on its own: every suggestion list, every original word
\* ------------------------------------------------------------------------
MaxMatchLen == 3

MatchInit ==
  LET \* words a caller passes: translateEng passes normalizedWord (spaces already
      \* replaced by "_"), fetch passes the title it was asked for; a word may be
      \* typed in decomposed form
      MatchWords ==
        {wA, wAcc, <<"A">>, <<"b">>, <<"a", "acute">>, <<"a", "us", "b">>}
  IN
  LET \* titles a search can rank: plain, accented, capitalised, unrelated,
      \* and one of two words
      MatchTitles == {wA, wAcc, <<"A">>, <<"b">>, wAB}
  IN
  /\ limited = FALSE
  /\ NoLookup
  /\ LimiterIdle
  /\ CallIdle
  /\ NoComparison
  /\ \E suggestions \in SeqsUpTo(MatchTitles, MaxMatchLen),
        originalWord \in MatchWords :
       matching = [suggestions |-> suggestions, originalWord |-> originalWord,
                   pc |-> "called", correctedWord |-> Null]

\* lines 388-429: the method runs to its return
FilterBestMatch ==
  /\ matching.pc = "called"
  /\ matching' = [matching EXCEPT
       !.pc = "returned",
       !.correctedWord = filterBestMatch(matching.suggestions,
                                         matching.originalWord)]
  /\ UNCHANGED <<vars, limiterVars, calling, pairVars>>

MatchNext == FilterBestMatch

MatchSpec == MatchInit /\ [][MatchNext]_<<vars, limiterVars, matching, calling, pairVars>>

\* ------------------------------------------------------------------------
\* Wikiglot.searchByTransliteration
\* ------------------------------------------------------------------------
\* the Unicode block of a character, as far as the tests of lines 127-133
\* tell blocks apart
Block(c) ==
  CASE c = "alef" -> "Arabic"       \* U+0627
    [] c = "ga" -> "Hangul"         \* U+AC00
    [] c = "jamo" -> "Jamo"         \* U+1100
    [] c = "zhong" -> "CJK"         \* U+4E2D
    [] c = "hira" -> "Hiragana"     \* U+3042
    [] c = "kata" -> "Katakana"     \* U+30A2
    [] OTHER -> "Latin"

\* /[...]/.test(word) for the character class of the language
TestsScript(word, language) ==
  LET blocks ==
        CASE language = "ar" -> {"Arabic"}
          [] language = "ko" -> {"Hangul", "Jamo"}
          [] language \in {"zh", "yue"} -> {"CJK"}
          [] language = "ja" -> {"Hiragana", "Katakana", "CJK"}
          [] OTHER -> {}
  IN IF blocks = {} THEN TRUE
     ELSE \E i \in 1..Len(word) : Block(word[i]) \in blocks

\* lines 108-142, after searchSuggestions returned suggestions; an omitted
\* or empty language is ""
searchByTransliteration(suggestions, language) ==
  IF language # "" /\ language \in DOMAIN LANGUAGE_NAMES
     /\ language \in {"ar", "ko", "zh", "yue", "ja"}
  THEN SelectSeq(suggestions, LAMBDA word : TestsScript(word, language))
  ELSE suggestions

\* ------------------------------------------------------------------------
\* headwordParser.ts: extractHeadwordTransliteration (lines 139-220)
\* ------------------------------------------------------------------------
\* The section of the language is represented by the elements the three
\* patterns look for, in page order:
\*   kind "bullet"        a bullet followed by a parenthetical,
\*   kind "romanization"  a span whose class holds "romanization",
\*   kind "latn"          a span, b, strong or i element with lang="<code>-Latn",
\* each with the text it yields once tags are removed and blanks trimmed
\* ("" when nothing is left).  header is the number of elements within the
\* first 10000 characters of the section.  "" stands for undefined.
extractHeadwordTransliteration(section, header, languageName) ==
  LET First(from, kind, code) ==
        LET hits == SelectSeq(from, LAMBDA el :
                      el.kind = kind /\ (kind = "latn" => el.code = code))
        IN IF hits = <<>> THEN "" ELSE hits[1].text
      headerSection == SubSeq(section.elements, 1, header)
      bulletMatch == First(headerSection, "bullet", "")
      romanMatch == First(section.elements, "romanization", "")
      langCode == CASE languageName = "Arabic" -> "ar"
                    [] languageName = "Korean" -> "ko"
                    [] languageName \in {"Chinese", "Mandarin"} -> "zh"
                    [] languageName = "Cantonese" -> "yue"
                    [] languageName = "Japanese" -> "ja"
                    [] OTHER -> ""
      latinMatch == First(headerSection, "latn", langCode)
  IN IF section.language # languageName THEN ""
     ELSE IF bulletMatch # "" THEN bulletMatch
     ELSE IF romanMatch # "" THEN romanMatch
     ELSE IF langCode # "" /\ latinMatch # "" THEN latinMatch
     ELSE ""

\* ------------------------------------------------------------------------
\* The stateless functions on their own: every argument of a bounded set
\* ------------------------------------------------------------------------
MaxElements == 2
MaxSpans == 3

Call(fn, args) == [fn |-> fn, args |-> args, pc |-> "called", value |-> <<>>]
Called(fn) == calling.fn = fn /\ calling.pc = "called"
Return(value) == calling' = [calling EXCEPT !.pc = "returned", !.value = value]

CallInit ==
  LET LanguageTags == {"", "ar", "ko", "zh", "ja", "yue", "es", "xx"}
  IN
  LET \* titles a search can rank, one per script and two of mixed script
      ScriptTitles ==
        {wA, <<"alef">>, <<"ga">>, <<"jamo">>, <<"zhong">>, <<"hira">>, <<"kata">>,
         <<"a", "zhong">>}
  IN
  LET \* the spans of a line: renderings (a lang attribute, no class tr) and
      \* transliterations marked by the class tr, by a Latin-script lang
      \* attribute, or by both
      LineSpans ==
        {Span("ar", FALSE, t) : t \in {"x", "y"}}
        \cup {Span("ar-Latn", TRUE, t) : t \in {"t", "u"}}
        \cup {Span("", TRUE, "t"), Span("ar-Latn", FALSE, "t")}
  IN
  LET \* what a headword line can hold: a romanization after the bullet, a
      \* romanization span, and Latin-script elements, those of Korean carrying
      \* the name of a speech level instead of a romanization
      HeaderElements ==
        {[kind |-> "bullet", code |-> "", text |-> t] : t \in {"", "marhaban"}}
        \cup {[kind |-> "romanization", code |-> "", text |-> t] :
                t \in {"", "annyeong"}}
        \cup {[kind |-> "latn", code |-> "ar", text |-> "marhaban"],
              [kind |-> "latn", code |-> "ko", text |-> "haeyoche"],
              [kind |-> "latn", code |-> "ko", text |-> ""]}
  IN
  /\ limited = FALSE
  /\ NoLookup
  /\ LimiterIdle
  /\ MatchIdle
  /\ NoComparison
  /\ \/ \E suggestions \in SeqsUpTo(ScriptTitles, MaxSuggestions),
            language \in LanguageTags :
           calling = Call("searchByTransliteration",
                          [suggestions |-> suggestions, language |-> language])
     \/ \E elements \in SeqsUpTo(HeaderElements, MaxElements),
            language \in {"Korean", "Arabic"},
            languageName \in {"Korean", "Arabic", "Spanish"} :
           \E header \in 0..Len(elements) :
             calling = Call("extractHeadwordTransliteration",
                            [section |-> [language |-> language,
                                          elements |-> elements],
                             header |-> header,
                             languageName |-> languageName])
     \/ \E content \in SeqsUpTo(LineSpans, MaxSpans) :
           calling = Call("extractTranslations",
                          [content |-> content, gloss |-> "gloss"])

SearchByTransliteration ==
  /\ Called("searchByTransliteration")
  /\ Return(searchByTransliteration(calling.args.suggestions,
                                    calling.args.language))
  /\ UNCHANGED <<vars, limiterVars, matching, pairVars>>

ExtractHeadwordTransliteration ==
  /\ Called("extractHeadwordTransliteration")
  /\ Return(extractHeadwordTransliteration(calling.args.section,
                                           calling.args.header,
                                           calling.args.languageName))
  /\ UNCHANGED <<vars, limiterVars, matching, pairVars>>

ExtractTranslations ==
  /\ Called("extractTranslations")
  /\ Return(extractTranslations(spanMatches(calling.args.content),
                                calling.args.gloss))
  /\ UNCHANGED <<vars, limiterVars, matching, pairVars>>

CallNext ==
  \/ SearchByTransliteration
  \/ ExtractHeadwordTransliteration
  \/ ExtractTranslations

CallSpec == CallInit /\ [][CallNext]_<<vars, limiterVars, matching, calling, pairVars>>

\* ------------------------------------------------------------------------
\* Vocabulary of the properties
\* ------------------------------------------------------------------------
Returned == outcome.status = "returned"
Threw == outcome.status = "threw"

IsPrefix(s, t) == Len(s) <= Len(t) /\ SubSeq(t, 1, Len(s)) = s
Has(context, purpose) == \E i \in 1..Len(context) : context[i] = purpose

\* requests made for the queried word itself: not for a redirect subpage
\* and not inside a base-form lookup
ForPrimaryQuery(e) == ~Has(e.context, "redirect") /\ ~Has(e.context, "base")
\* requests made by an auxiliary fetch (redirect subpage or base-form lookup)
Auxiliary(e) == Has(e.context, "redirect") \/ Has(e.context, "base")
Failed(e) == e.response \in {"missing", "timeout", "error"}

\* the groups of a result, and those naming `word` as their base verb
ResultGroups == outcome.result.translationsByType

\* ------------------------------------------------------------------------
\* C1: a call whose language pair is unsupported, has equal sides or has no
\* English side fails with a WikiglotError without any network activity:
\* no request is sent and no rate-limiter admission happens.
\* ------------------------------------------------------------------------

C1_RejectedBeforeNetwork ==
  LET RejectedPair(sourceLanguage, targetLanguage) ==
        \/ sourceLanguage \notin DOMAIN LANGUAGE_NAMES
        \/ targetLanguage \notin DOMAIN LANGUAGE_NAMES
        \/ sourceLanguage = targetLanguage
        \/ (sourceLanguage # "en" /\ targetLanguage # "en")
  IN
  LET Started == outcome.status # "idle"
  IN
  (Started /\ RejectedPair(call.sourceLanguage, call.targetLanguage)) =>
    /\ log = <<>>
    /\ net = NoRequest
    /\ admissions = 0
    /\ Len(stack) <= 1
    /\ ~Returned
    /\ Threw => outcome.error = "WikiglotError"

C1_Witness ==
  /\ Threw
  /\ limited
  /\ call.sourceLanguage = "es" /\ call.targetLanguage = "fr"
  /\ outcome.error = "WikiglotError"
  /\ log = <<>>

\* ------------------------------------------------------------------------
\* C2: a translateEng call running with the suppression flag (a base-form
\* call or a correction retry) never starts a base-form call: every
\* base-form call is made by a call without the flag, so at most one is
\* pending at any time, whatever the pages contain.
\* ------------------------------------------------------------------------
C2_BaseFormDepthOne ==
  /\ \A i \in 1..Len(stack) :
       stack[i].purpose = "base" =>
         /\ i > 1
         /\ stack[i - 1].fn = "translateEng"
         /\ ~stack[i - 1].skipVerbFormLookup
         /\ stack[i].skipVerbFormLookup
  /\ \A i \in 1..Len(stack) :
       stack[i].purpose = "retry" => stack[i].skipVerbFormLookup
  /\ Cardinality({i \in 1..Len(stack) : stack[i].purpose = "base"}) <= 1

\* a base-form call for "a" received a page that is itself a form of "a"
C2_Witness ==
  /\ stack # <<>>
  /\ Top.purpose = "base"
  /\ Top.pc = "finalize"
  /\ Top.html = FormPage(wA)
  /\ Top.sourceLanguage = "es"

\* ------------------------------------------------------------------------
\* C3: a detected form never names the queried word as its base lexeme and
\* a self-reference is not followed: no base-form call is made for the word
\* of the calling lookup, and no group of a result carries a baseVerb equal
\* to the queried word.
\* ------------------------------------------------------------------------
C3_NoSelfReference ==
  /\ \A i \in 2..Len(stack) :
       stack[i].purpose = "base" => stack[i].word # stack[i - 1].word
  /\ Returned =>
       \A i \in 1..Len(ResultGroups) :
         ResultGroups[i].verbForm.baseVerb # call.word

\* ------------------------------------------------------------------------
\* C4: within one lookup at most one search and at most one fetch of a
\* corrected word are performed for the queried word, also when the
\* retried page is missing or yields no groups.
\* ------------------------------------------------------------------------
C4_SingleCorrection ==
  LET IsPrimarySearch(e) == e.kind = "search" /\ ForPrimaryQuery(e)
  IN
  LET \* page fetches of a corrected word: the retry of fetch and the retry lookup
      IsCorrectedFetch(e) ==
        /\ e.kind = "page"
        /\ ForPrimaryQuery(e)
        /\ Has(e.context, "corrected") \/ Has(e.context, "retry")
  IN
  /\ Len(SelectSeq(log, IsPrimarySearch)) <= 1
  /\ Len(SelectSeq(log, IsCorrectedFetch)) <= 1

\* ------------------------------------------------------------------------
\* C5: an exact match sets no correction record: when the page of the
\* queried word exists and yields at least one group, the result returned
\* has neither searchedFor nor foundAs.
\* ------------------------------------------------------------------------
\* the groups extracted from the page the outer call holds
DirectGroups(f) ==
  IF f.sourceLanguage = "en"
  THEN parseWiktionaryTranslationsByType(EnglishHtml(f.html), f.targetLanguage)
  ELSE parseEnglishWiktionaryForeignWord(f.html, LANGUAGE_NAMES[f.sourceLanguage])

OuterReturns ==
  /\ Len(stack) = 1 /\ stack' = <<>> /\ ret'.kind = "value"

C5_ExactMatchUncorrected ==
  [][ (/\ OuterReturns
       /\ log[1].response = "ok"
       /\ DirectGroups(stack[1]) # <<>>)
      => /\ ret'.result.searchedFor = Null
         /\ ret'.result.foundAs = Null ]_vars

C5_Witness ==
  /\ Returned
  /\ Len(log) = 1 /\ log[1].response = "ok"
  /\ ResultGroups # <<>>
  /\ outcome.result.searchedFor = Null
  /\ outcome.result.foundAs = Null

\* ------------------------------------------------------------------------
\* C6: in every result carrying a correction record the queried and the
\* resolved value differ: searchedFor # foundAs.
\* ------------------------------------------------------------------------
C6_CorrectionDiffers ==
  (Returned /\ outcome.result.searchedFor # Null) =>
    outcome.result.searchedFor # outcome.result.foundAs

\* ------------------------------------------------------------------------
\* C7: a lookup that succeeds through correction (it returns groups and a
\* correction record) names both ends exactly: searchedFor is the word the
\* caller passed and foundAs is the title of the page the lookup resolved
\* to, that is the last page fetched successfully for the queried word,
\* under the title asked for or the title the server reported for it.
\* ------------------------------------------------------------------------

C7_CorrectionNamesBothEnds ==
  LET ResolvedTitles ==
        LET IsResolvedPage(e) == e.kind = "page" /\ ForPrimaryQuery(e) /\ e.response = "ok"
        IN
        LET hits == SelectSeq(log, IsResolvedPage)
        IN IF hits = <<>> THEN {}
           ELSE {hits[Len(hits)].title, hits[Len(hits)].reported} \ {Null}
  IN
  (Returned /\ outcome.result.searchedFor # Null /\ ResultGroups # <<>>) =>
    /\ outcome.result.searchedFor = call.word
    /\ outcome.result.foundAs \in ResolvedTitles

\* ------------------------------------------------------------------------
\* C8: when the page of the queried word is reported missing and no
\* correction candidate resolves it, translate fails with
\* WikiglotNotFoundError.
\* ------------------------------------------------------------------------

C8_MissingIsNotFound ==
  LET NoPageFound == \A i \in 1..Len(log) : ~(log[i].kind = "page" /\ log[i].response = "ok")
  IN
  LET Settled == outcome.status \in {"returned", "threw"}
  IN
  (Settled /\ log # <<>> /\ log[1].response = "missing" /\ NoPageFound) =>
    /\ Threw
    /\ outcome.error = "WikiglotNotFoundError"

\* ------------------------------------------------------------------------
\* C9: when the primary page fetch times out, translate fails with
\* WikiglotTimeoutError and no further request is made: no retry of the
\* fetch and no search.
\* ------------------------------------------------------------------------
C9_PrimaryTimeoutIsFatal ==
  (log # <<>> /\ log[1].response = "timeout") =>
    /\ Len(log) = 1
    /\ net = NoRequest
    /\ ~Returned
    /\ Threw => outcome.error = "WikiglotTimeoutError"
    /\ \A i \in 1..Len(stack) : stack[i].fn = "translateEng"

C9_Witness ==
  /\ Threw
  /\ outcome.error = "WikiglotTimeoutError"
  /\ Len(log) = 1
  /\ log[1].response = "timeout"

\* ------------------------------------------------------------------------
\* C10: a failure of an auxiliary fetch (redirect subpage or base-form
\* lookup) is swallowed: the call that requested it goes on with the groups
\* it had collected, unchanged and in order, these groups stay a prefix of
\* what the call finally returns, and translate fails only when validation
\* or the primary page fetch fails.
\* ------------------------------------------------------------------------

C10_AuxiliaryFailureSwallowed ==
  /\ [](Threw => \A i \in 1..Len(log) :
                   \* a request of the primary page fetch of the outer call
                   /\ Len(log[i].context) >= 2
                   /\ log[i].context[1] = "outer"
                   /\ log[i].context[2] = "primary")
  /\ [][ /\ (/\ stack # <<>>
              /\ Top.fn = "translateEng"
              /\ Top.pc \in {"redirected", "baseVerbDone", "verbFormDone"}
              /\ ret.kind = "throw") =>
              /\ Len(stack') = Len(stack)
              /\ ret'.kind = "none"
              /\ stack'[Len(stack)].translationsByType = Top.translationsByType
         /\ (Len(stack) >= 1 /\ Len(stack') >= 1
               /\ stack[1].pc \notin {"entry", "fetched"}) =>
              IsPrefix(stack[1].translationsByType,
                       stack'[1].translationsByType)
         /\ OuterReturns =>
              IsPrefix(stack[1].translationsByType,
                       ret'.result.translationsByType) ]_vars

\* a lookup returned groups although its base-form lookup failed
C10_Witness ==
  /\ Returned
  /\ ResultGroups # <<>>
  /\ \E i \in 1..Len(log) : Auxiliary(log[i]) /\ Failed(log[i])
  /\ \A i \in 1..Len(log) : Auxiliary(log[i]) => Failed(log[i])

\* ------------------------------------------------------------------------
\* C11: with maxRequests >= 1 per perMilliseconds, acquire admits at most
\* maxRequests callers in every time window [t, t + perMilliseconds), for
\* every interleaving of the callers and every lateness of their timers.
\* ------------------------------------------------------------------------

C11_WindowNeverExceeded ==
  LET AdmittedIn(t, length) ==
        Len(SelectSeq(grants, LAMBDA time : t <= time /\ time < t + length))
  IN
  \A t \in 0..MaxClock :
    AdmittedIn(t, rateLimiter.perMilliseconds) <= rateLimiter.maxRequests

\* two callers were waiting for the same instant; one was admitted on waking,
\* the other re-checked and waits again
C11_Witness ==
  /\ Len(grants) > rateLimiter.maxRequests
  /\ \E p \in Callers :
       /\ acquiring[p].pc = "waiting"
       /\ acquiring[p].retries >= 1
       /\ acquiring[p].wake > clock
       /\ grants[Len(grants)] = clock

\* ------------------------------------------------------------------------
\* C12: with a rate limiter configured every request sent, whatever its
\* purpose, has an admission of its own: requests and admissions stay equal
\* in number, and each step that sends a request is a step that was admitted.
\* ------------------------------------------------------------------------
C12_EveryRequestAdmitted ==
  /\ [](limited => admissions = Len(log))
  /\ [][(limited /\ Len(log') = Len(log) + 1)
          => admissions' = admissions + 1]_vars

\* a limited lookup that searched, fetched a corrected page and looked up a
\* base form
C12_Witness ==
  /\ limited
  /\ Returned
  /\ admissions = Len(log)
  /\ \E i \in 1..Len(log) : log[i].kind = "search"
  /\ \E i \in 1..Len(log) : Has(log[i].context, "corrected")
  /\ \E i \in 1..Len(log) : Has(log[i].context, "base")

\* ------------------------------------------------------------------------
\* C13: no group without entries is ever emitted: every group a pending
\* call has collected and every group of a returned result has at least one
\* translation, whichever way it was obtained.
\* ------------------------------------------------------------------------

C13_NoEmptyGroup ==
  LET NonEmptyGroups(groups) ==
        \A i \in 1..Len(groups) : Len(groups[i].translations) >= 1
  IN
  /\ \A i \in 1..Len(stack) : NonEmptyGroups(stack[i].translationsByType)
  /\ ret.kind = "value" => NonEmptyGroups(ret.result.translationsByType)
  /\ Returned => NonEmptyGroups(ResultGroups)

\* a corrected lookup whose result also holds the groups of a base form
C13_Witness ==
  /\ Returned
  /\ outcome.result.searchedFor # Null
  /\ Len(ResultGroups) >= 2
  /\ \E i \in 1..Len(ResultGroups) : ResultGroups[i].verbForm # NoForm

\* ------------------------------------------------------------------------
\* C14: an exact match costs no search: when the page of the queried word
\* exists and yields at least one group, no search request is issued during
\* the whole lookup, including the fetches of redirect subpages and of
\* base-form pages.  Only runs in which the server answers every request
\* for the same title alike are considered.
\* ------------------------------------------------------------------------
SteadyServer ==
  \A i, j \in 1..Len(log) :
    (/\ log[i].kind = log[j].kind
     /\ log[i].title = log[j].title
     /\ log[i].response # "pending"
     /\ log[j].response # "pending")
    => log[i].response = log[j].response

C14_ExactMatchNoSearch ==
  LET ExactMatch ==
        /\ SteadyServer
        /\ stack # <<>>
        /\ stack[1].pc \notin {"entry", "fetched"}
        /\ log[1].response = "ok"
        /\ DirectGroups(stack[1]) # <<>>
  IN
  ExactMatch => \A i \in 1..Len(log) : log[i].kind # "search"

\* ------------------------------------------------------------------------
\* C15: a corrected lookup costs exactly one request more than the same
\* lookup without correction: besides the page fetch an uncorrected lookup
\* makes for the queried word, a result carrying a correction record was
\* obtained with one further request for it.
\* ------------------------------------------------------------------------

C15_OneExtraCall ==
  LET PrimaryRequests == SelectSeq(log, ForPrimaryQuery)
  IN
  (Returned /\ SteadyServer /\ outcome.result.searchedFor # Null)
    => Len(PrimaryRequests) = 1 + 1

\* ------------------------------------------------------------------------
\* C16: every returned result names the query as the caller made it: its
\* word, sourceLanguage and targetLanguage are the arguments of translate,
\* also when the result came from a correction retry.
\* ------------------------------------------------------------------------
C16_ResultNamesQuery ==
  Returned =>
    /\ outcome.result.word = call.word
    /\ outcome.result.sourceLanguage = call.sourceLanguage
    /\ outcome.result.targetLanguage = call.targetLanguage

\* ------------------------------------------------------------------------
\* C17: the outer call never returns an empty group list without having
\* attempted correction: if it returns zero groups and its fetch applied no
\* correction, it returns from the fallback, after a search for the queried
\* word was answered, and, when the search selected another title, after
\* the one retry for that title ran.
\* ------------------------------------------------------------------------
IsOuterSearch(e) ==
  e.kind = "search" /\ e.context = <<"outer", "search">>
  /\ e.response # "pending"
IsRetryFetch(e) == e.context = <<"outer", "retry", "primary">>

C17_EmptyOnlyAfterCorrection ==
  [][ (/\ OuterReturns
       /\ ret'.result.translationsByType = <<>>
       /\ stack[1].correctedFrom = Null)
      => /\ stack[1].pc \in {"searched", "retried"}
         /\ Len(SelectSeq(log, IsOuterSearch)) = 1
         /\ SelectSeq(log, IsOuterSearch)[1].title = stack[1].normalizedWord
         /\ stack[1].pc = "searched" =>
              /\ \A i \in 1..Len(log) :
                   ~(/\ Len(log[i].context) >= 2
                     /\ log[i].context[1] = "outer"
                     /\ log[i].context[2] = "retry")
              /\ ret.list = <<>> \/ stack[1].normalizedWord \in
                   {ret.list[i] : i \in 1..Len(ret.list)}
                   \/ \A i \in 1..Len(ret.list) : IncludesSpace(ret.list[i])
         /\ stack[1].pc = "retried" =>
              /\ Len(SelectSeq(log, IsRetryFetch)) = 1
              /\ SelectSeq(log, IsRetryFetch)[1].title = stack[1].correctedWord
              /\ stack[1].correctedWord # stack[1].normalizedWord ]_vars

\* an empty result returned after the search and a retry that found nothing
C17_Witness ==
  /\ Returned
  /\ ResultGroups = <<>>
  /\ outcome.result.searchedFor = Null
  /\ Len(SelectSeq(log, IsOuterSearch)) = 1
  /\ Len(SelectSeq(log, IsRetryFetch)) = 1
  /\ log[1].response = "ok"

\* ------------------------------------------------------------------------
\* C18: base-form groups are appended, not merged: when a base-form lookup
\* succeeds, the caller's group list becomes the groups it had (those
\* extracted from the queried page first, unchanged and in order) followed
\* by every group of the base-form result, in order, each keeping its word
\* type and entries and tagged with the form detected for the queried word,
\* whose baseVerb is the word that was looked up.
\* ------------------------------------------------------------------------

C18_BaseFormGroupsAppended ==
  [][ (/\ stack # <<>>
       /\ Top.fn = "translateEng"
       /\ Top.pc \in {"baseVerbDone", "verbFormDone"}
       /\ ret.kind = "value") =>
        LET before == Top.translationsByType
            base == ret.result.translationsByType
            after == stack'[Len(stack)].translationsByType
            DetectedForm ==
              IF Top.pc = "baseVerbDone" THEN Top.englishVerbForm
              ELSE Top.verbFormEntries[Top.vfIdx].verbForm
        IN /\ Len(stack') = Len(stack)
           /\ IsPrefix(DirectGroups(Top), before)
           /\ Len(after) = Len(before) + Len(base)
           /\ SubSeq(after, 1, Len(before)) = before
           /\ DetectedForm # NoForm
           /\ DetectedForm.baseVerb = ret.result.word
           /\ \A i \in 1..Len(base) :
                /\ after[Len(before) + i].wordType = base[i].wordType
                /\ after[Len(before) + i].translations = base[i].translations
                /\ after[Len(before) + i].verbForm = DetectedForm ]_vars

\* a result holding a group of the queried page followed by a base-form
\* group that had no form of its own
C18_Witness ==
  /\ Returned
  /\ Len(ResultGroups) >= 2
  /\ ResultGroups[1].translations[1].translation = "form"
  /\ ResultGroups[Len(ResultGroups)].translations[1].translation = "sugar"
  /\ ResultGroups[Len(ResultGroups)].verbForm.baseVerb = wA

\* ------------------------------------------------------------------------
\* filterBestMatch: the candidate it chooses
\* ------------------------------------------------------------------------
MatchReturned == matching.pc = "returned"

\* C19: the candidate filterBestMatch returns contains no space and is an
\* element of the suggestion list, and when every suggestion has several
\* words it returns null, so that no correction is made.
C19_CandidateIsSingleWordSuggestion ==
  LET Suggested ==
        {matching.suggestions[i] : i \in 1..Len(matching.suggestions)}
  IN MatchReturned =>
       /\ matching.correctedWord # Null =>
            /\ ~IncludesSpace(matching.correctedWord)
            /\ matching.correctedWord \in Suggested
       /\ (\A t \in Suggested : IncludesSpace(t)) =>
            matching.correctedWord = Null

\* a title of two words ranked first is passed over for a later single word
C19_Witness ==
  /\ MatchReturned
  /\ Len(matching.suggestions) = 3
  /\ matching.suggestions[1] = wAB
  /\ matching.suggestions[2] = wAB
  /\ matching.correctedWord = matching.suggestions[3]
  /\ matching.correctedWord = <<"b">>

SingleWordSuggestions ==
  SelectSeq(matching.suggestions, LAMBDA t : ~IncludesSpace(t))
Survivors ==
  LET \* a letter without its diacritic and in lower case; a lone mark vanishes
      Unmarked(s) ==
        LET FoldChar(c) ==
              CASE c = "a'" -> <<"a">>
                [] c = "A" -> <<"a">>
                [] c = "acute" -> <<>>
                [] OTHER -> <<c>>
        IN Flatten([i \in 1..Len(s) |-> FoldChar(s[i])])
  IN
  SelectSeq(SingleWordSuggestions,
            LAMBDA t : Unmarked(t) = Unmarked(matching.originalWord))

\* the decision procedure as stated
StatedChoice ==
  LET BearsDiacritic(s) == \E i \in 1..Len(s) : s[i] \in {"a'", "acute"}
  IN
  LET DiacriticSurvivors == SelectSeq(Survivors, BearsDiacritic)
  IN IF Len(Survivors) = 1 THEN Survivors[1]
     ELSE IF Len(Survivors) > 1
          THEN IF ~BearsDiacritic(matching.originalWord)
                  /\ DiacriticSurvivors # <<>>
               THEN DiacriticSurvivors[1]
               ELSE Survivors[1]
          ELSE IF SingleWordSuggestions # <<>> THEN SingleWordSuggestions[1]
               ELSE Null

C21_FilteredByScript ==
  LET suggestions == calling.args.suggestions
      language == calling.args.language
      value == calling.value
      Script ==
        CASE language = "ar" -> {"Arabic"}
          [] language = "ko" -> {"Hangul", "Jamo"}
          [] language = "zh" -> {"CJK"}
          [] language = "ja" -> {"Hiragana", "Katakana", "CJK"}
          [] OTHER -> {}
  IN (calling.fn = "searchByTransliteration" /\ calling.pc = "returned") =>
       /\ language = "" => value = suggestions
       /\ language \in {"ar", "ko", "zh", "ja"} =>
            /\ \E at \in [1..Len(value) -> 1..Len(suggestions)] :
                 /\ \A i \in 1..Len(value) : value[i] = suggestions[at[i]]
                 /\ \A i, j \in 1..Len(value) : i < j => at[i] < at[j]
            /\ \A i \in 1..Len(value) :
                 \E k \in 1..Len(value[i]) : Block(value[i][k]) \in Script

\* ------------------------------------------------------------------------
\* C22: the Definition Extractor never emits an entry for a definition list
\* item that does not open with a cross-reference link, whatever the source
\* language and the shape of the page: every entry extracted from a foreign
\* page comes from an item with a leading link, or from a row of a
\* ja-see / zh-see table (which is not a list item).
\* ------------------------------------------------------------------------
C22_EntriesFromLeadingLinks ==
  \A k \in 1..Len(stack) :
    LET f == stack[k]
        ls == SecsOfLang(f.html, LANGUAGE_NAMES[f.sourceLanguage])
        Texts(item) ==
          {item.links[i] : i \in 1..Len(item.links)}
            \cup (IF item.plain = <<>> THEN {} ELSE {item.plain[1]})
        Sources ==
          UNION {{Texts(ls[i].defs[j]) : j \in
                    {j \in 1..Len(ls[i].defs) :
                       ls[i].type = "see-table" \/ ls[i].defs[j].lead}} :
                 i \in 1..Len(ls)}
        groups == DirectGroups(f)
    IN (f.fn = "translateEng" /\ f.sourceLanguage # "en") =>
         \A g \in 1..Len(groups) :
           \A e \in 1..Len(groups[g].translations) :
             groups[g].translations[e].translation \in UNION Sources

\* ------------------------------------------------------------------------
\* C23: a lookup performs at most one recursive base-form call, and exactly
\* one when the outer call detected a form, however many groups of the page
\* carry a detected form.  A base-form call is counted by the first page
\* request it sends.
\* ------------------------------------------------------------------------
C23_OneBaseFormCall ==
  /\ [](Len(SelectSeq(log, LAMBDA e :
            e.kind = "page" /\ e.context = <<"outer", "base", "primary">>))
          <= 1)
  /\ [][ (/\ OuterReturns
          /\ \/ stack[1].englishVerbForm # NoForm
             \/ stack[1].verbFormEntries # <<>>)
         => Len(SelectSeq(log, LAMBDA e :
              e.kind = "page" /\ e.context = <<"outer", "base", "primary">>))
              = 1 ]_vars

\* ------------------------------------------------------------------------
\* C24: whatever fetch times out (page, search, redirect, base form), the
\* step that requested it observes a timeout failure: the call that sent the
\* request ends by throwing WikiglotTimeoutError to its caller; a timed-out
\* search is not answered with a list of candidates.
\* ------------------------------------------------------------------------
C24_TimeoutSurfaces ==
  [][ (/\ net.kind # "none"
       /\ log' # log
       /\ log'[Len(log)].response = "timeout")
      => /\ Len(stack') = Len(stack) - 1
         /\ ret'.kind = "throw"
         /\ ret'.error = "WikiglotTimeoutError" ]_vars

\* ------------------------------------------------------------------------
\* C25: a result carries a correction record only when the search and the
\* retry succeeded: every returned result with searchedFor set has a
\* non-empty group list.
\* ------------------------------------------------------------------------
C25_CorrectionRecordMeansGroups ==
  (Returned /\ outcome.result.searchedFor # Null) => ResultGroups # <<>>

\* ------------------------------------------------------------------------
\* C26: the third fallback of extractHeadwordTransliteration is never used
\* for Korean: when, in a Korean section, the bullet pattern and the
\* romanization span both yield nothing, the function returns no
\* transliteration, even with a lang="ko-Latn" element present.
\* ------------------------------------------------------------------------
C26_KoreanSkipsLatinFallback ==
  LET section == calling.args.section
      Yields(from, kind) ==
        LET hits == SelectSeq(from, LAMBDA el : el.kind = kind)
        IN hits # <<>> /\ hits[1].text # ""
  IN (/\ calling.fn = "extractHeadwordTransliteration"
      /\ calling.pc = "returned"
      /\ calling.args.languageName = "Korean"
      /\ section.language = "Korean"
      /\ ~Yields(SubSeq(section.elements, 1, calling.args.header), "bullet")
      /\ ~Yields(section.elements, "romanization"))
     => calling.value = ""

C28_LookupTerminates ==
  /\ [](Len(log) <= 11)
  /\ (outcome.status = "running") ~> (Returned \/ Threw)

\* a lookup that went through search and retry has returned
C28_Witness ==
  /\ Returned
  /\ Len(log) >= 6
  /\ \E i \in 1..Len(log) : log[i].kind = "search"

\* ------------------------------------------------------------------------
\* C29: a corrected lookup is equivalent to a direct lookup of the resolved
\* word.  When translate(w, s, t) returned a result corrected to w' and
\* translate(w', s, t) then returned against the same Wiktionary, the two
\* results hold the same list of groups, on both correction paths.
\* ------------------------------------------------------------------------
C29_CorrectedEqualsDirect ==
  (earlier # NoResult /\ outcome.status = "returned")
    => outcome.result.translationsByType = earlier.translationsByType

\* ------------------------------------------------------------------------
\* C30: every RateLimiter.acquire call eventually completes.  Whatever
\* maxRequests and perMilliseconds the limiter was built with, with time
\* advancing and finitely many calls, a caller that acquire made wait is
\* eventually admitted.
\* ------------------------------------------------------------------------
C30_AcquireCompletes ==
  \A p \in Callers :
    (acquiring[p].pc = "waiting") ~> (acquiring[p].pc = "idle")

====
